---- MODULE Spec2Model ----
(***************************************************************************)
(* Model of the CareLink clinician dashboard's reading-ingestion and alert *)
(* lifecycle code: the /api/readings and /api/alerts route handlers, the   *)
(* alert page's handlers, and the Firestore collections they write.        *)
(*                                                                         *)
(* Conventions.                                                            *)
(*  - A Firestore document and a JSON request body are functions from      *)
(*    field names to values; an optional field that is absent is absent    *)
(*    from the DOMAIN (JavaScript's undefined).                            *)
(*  - new Date().toISOString() is modelled by the integer clock reading    *)
(*    it formats (the ISO format is order preserving and injective).       *)
(*  - Firestore's generated document ids are "alert-<n>" / "reading-<n>"   *)
(*    with n the position of the document in its collection.               *)
(***************************************************************************)
EXTENDS Integers, Sequences, FiniteSets, TLC

VARIABLES
    isAdminConfigured,  \* lib/firebase-admin: are the admin credentials set
    readings,           \* Firestore collection "readings", in creation order
    alerts,             \* Firestore collection "alerts", in creation order
    now,                \* the wall clock read by new Date()
    last,               \* the request or page event handled by the last step
    response,           \* the HTTP response to the last request
    uiAlerts,           \* alerts/page.tsx: the page's local `alerts` state
    statusFilter,       \* alerts/page.tsx: the page's status filter
    probe,              \* classifier under test: its arguments and result
    pending,            \* the submissions in flight, one per request slot
    peerAlerts,         \* alerts/page.tsx open in a second clinician's session
    conversations,      \* messages page: its `conversations` state
    selectedConversation, \* messages page: the open conversation, or none
    searchQuery         \* messages page: the text of the search box

vars == <<isAdminConfigured, readings, alerts, now, last, response, uiAlerts,
         statusFilter, probe, pending, peerAlerts, conversations,
         selectedConversation, searchQuery>>

-----------------------------------------------------------------------------
(* Bounds of the model *)

MaxReadings == 1    \* documents the readings collection may hold
MaxTime == 1        \* last clock reading
MaxProbe == 4       \* classifier arguments range this far past each limit
MaxSubmissions == 2 \* reading submissions that may be in flight together
MaxSent == 1        \* messages the clinician may send

-----------------------------------------------------------------------------
(* JavaScript helpers *)

Undefined == <<>>

Has(obj, f) == f \in DOMAIN obj

\* obj.f, or Undefined when the field is absent
Get(obj, f) == IF Has(obj, f) THEN <<obj[f]>> ELSE Undefined

\* !v for a number or a string read with Get: undefined, 0 and "" are falsy
FalsyNumber(v) == v = Undefined \/ v = <<0>>
FalsyString(v) == v = Undefined \/ v = <<"">>

\* v == null for a value read with Get
IsNullish(v) == v = Undefined

\* { f: v } when v is defined; Firestore never stores an undefined field
Field(f, v) == IF v = Undefined THEN <<>> ELSE f :> v[1]

Digit(d) == CASE d = 0 -> "0" [] d = 1 -> "1" [] d = 2 -> "2" [] d = 3 -> "3"
              [] d = 4 -> "4" [] d = 5 -> "5" [] d = 6 -> "6" [] d = 7 -> "7"
              [] d = 8 -> "8" [] d = 9 -> "9"

RECURSIVE NatToString(_)
NatToString(n) == IF n < 10 THEN Digit(n)
                  ELSE NatToString(n \div 10) \o Digit(n % 10)

\* `${n}` for an integer n
NumberToString(n) == IF n < 0 THEN "-" \o NatToString(-n) ELSE NatToString(n)

-----------------------------------------------------------------------------
(* The stored patient profiles and the requests the model submits *)

\* Firestore collection "patients": the profiles createAlertForReading reads
patientsCollection == "P-1001" :> [firstName |-> "Ana", lastName |-> "Silva"]

demoPatientMap ==
    [p \in {"P-2025-001", "P-2025-002", "P-2025-003", "P-2025-004",
            "P-2025-005", "P-2025-006", "P-2025-007", "P-2025-008",
            "P-2025-009", "P-2025-010", "P-2025-011"} |->
        CASE p = "P-2025-001" -> "Maria Rodriguez"
          [] p = "P-2025-002" -> "Robert Thompson"
          [] p = "P-2025-003" -> "James Wilson"
          [] p = "P-2025-004" -> "Linda Martinez"
          [] p = "P-2025-005" -> "David Kim"
          [] p = "P-2025-006" -> "Sarah Johnson"
          [] p = "P-2025-007" -> "William Brown"
          [] p = "P-2025-008" -> "Michael Chen"
          [] p = "P-2025-009" -> "Emily Davis"
          [] p = "P-2025-010" -> "Thomas Anderson"
          [] p = "P-2025-011" -> "Patricia Lee"]

\* the clock readings a handler may take: time does not run backward
Clock == {t \in {now, now + 1} : t <= MaxTime}

\* a CreateReadingRequest body; every argument is Undefined or <<value>>
ReadingBody(patientId, systolic, diastolic, source) ==
    Field("patientId", patientId) @@ Field("systolic", systolic)
    @@ Field("diastolic", diastolic) @@ Field("source", source)
    @@ [pulse |-> 72, deviceId |-> "ipad-1", patientNote |-> "after rest"]

-----------------------------------------------------------------------------
(* app/api/readings/route.ts *)

getReadingStatus_EscalatesOnOpenAlert(systolic, diastolic) ==
    IF systolic >= 180 \/ diastolic >= 120 THEN "critical"
    ELSE IF systolic >= 140 \/ diastolic >= 90
    THEN (IF alerts # <<>> THEN "critical" ELSE "high")
    ELSE IF systolic >= 130 \/ diastolic >= 80 THEN "elevated"
    ELSE "normal"

getReadingStatus_Exclusive(systolic, diastolic) ==
    IF systolic > 180 \/ diastolic > 120 THEN "critical"
    ELSE IF systolic > 140 \/ diastolic > 90 THEN "high"
    ELSE IF systolic > 130 \/ diastolic > 80 THEN "elevated"
    ELSE "normal"

getReadingStatus(systolic, diastolic) ==
    IF systolic >= 180 \/ diastolic >= 120 THEN "critical"
    ELSE IF systolic >= 140 \/ diastolic >= 90 THEN "high"
    ELSE IF systolic >= 130 \/ diastolic >= 80 THEN "elevated"
    ELSE "normal"

ReadingDocId(n) == "reading-" \o NumberToString(n)
AlertDocId(n) == "alert-" \o NumberToString(n)

alertData_TierIgnored(reading, patientName, t) ==
    [patientId |-> reading.patientId,
     patientName |-> patientName,
     type |-> "high-bp",
     severity |-> "warning",
     status |-> "new",
     title |-> "High Blood Pressure Alert",
     description |-> "Blood pressure reading of " \o NumberToString(reading.systolic)
                     \o "/" \o NumberToString(reading.diastolic)
                     \o " mmHg requires attention.",
     relatedReadingId |-> reading.id,
     triggerValue |-> NumberToString(reading.systolic) \o "/"
                      \o NumberToString(reading.diastolic),
     createdAt |-> t]

\* the alert document createAlertForReading builds for a saved reading
alertData(reading, patientName, t) ==
    [patientId |-> reading.patientId,
     patientName |-> patientName,
     type |-> IF reading.status = "critical" THEN "critical-bp" ELSE "high-bp",
     severity |-> IF reading.status = "critical" THEN "critical" ELSE "warning",
     status |-> "new",
     title |-> IF reading.status = "critical"
               THEN "Critical Blood Pressure Alert"
               ELSE "High Blood Pressure Alert",
     description |-> "Blood pressure reading of " \o NumberToString(reading.systolic)
                     \o "/" \o NumberToString(reading.diastolic)
                     \o " mmHg requires attention.",
     relatedReadingId |-> reading.id,
     triggerValue |-> NumberToString(reading.systolic) \o "/"
                      \o NumberToString(reading.diastolic),
     createdAt |-> t]

ResolvePatientName_NoFallback(patientId) ==
    IF patientId \in DOMAIN patientsCollection
    THEN patientsCollection[patientId].firstName \o " "
         \o patientsCollection[patientId].lastName
    ELSE IF patientId \in DOMAIN demoPatientMap
    THEN demoPatientMap[patientId]
    ELSE "undefined undefined"

\* the display name createAlertForReading resolves for a patient reference
ResolvePatientName(patientId) ==
    IF patientId \in DOMAIN patientsCollection
    THEN patientsCollection[patientId].firstName \o " "
         \o patientsCollection[patientId].lastName
    ELSE IF patientId \in DOMAIN demoPatientMap
    THEN demoPatientMap[patientId]
    ELSE "Unknown Patient"

createAlertForReading_Deduplicates(reading, fault, t) ==
    IF fault \in {"patients.get", "alerts.add"}
    THEN [alerts |-> alerts, threw |-> FALSE]
    ELSE IF \E n \in 1..Len(alerts) :
               alerts[n].patientId = reading.patientId /\ alerts[n].status # "resolved"
    THEN [alerts |-> alerts, threw |-> FALSE]
    ELSE [alerts |-> Append(alerts, alertData(reading,
                                              ResolvePatientName(reading.patientId), t)),
          threw |-> FALSE]

createAlertForReading_WritesTwice(reading, fault, t) ==
    IF fault = "patients.get"
    THEN [alerts |-> alerts, threw |-> FALSE]
    ELSE IF fault = "alerts.add"
    THEN [alerts |-> Append(alerts, alertData(reading,
                                              ResolvePatientName(reading.patientId), t)),
          threw |-> FALSE]
    ELSE [alerts |-> Append(Append(alerts,
                                   alertData(reading,
                                             ResolvePatientName(reading.patientId), t)),
                            alertData(reading,
                                      ResolvePatientName(reading.patientId), t)),
          threw |-> FALSE]

createAlertForReading_Rethrows(reading, fault, t) ==
    IF fault \in {"patients.get", "alerts.add"}
    THEN [alerts |-> alerts, threw |-> TRUE]
    ELSE [alerts |-> Append(alerts, alertData(reading,
                                              ResolvePatientName(reading.patientId), t)),
          threw |-> FALSE]

\* createAlertForReading: the alerts collection afterwards, and whether the
\* call threw.  A rejected patients.get or alerts.add is caught and logged
\* inside it: the collection is as before and nothing is thrown.
createAlertForReading(reading, fault, t) ==
    IF fault \in {"patients.get", "alerts.add"}
    THEN [alerts |-> alerts, threw |-> FALSE]
    ELSE [alerts |-> Append(alerts, alertData(reading,
                                              ResolvePatientName(reading.patientId), t)),
          threw |-> FALSE]

readingData_ClassifiesSystolicOnly(body, t) ==
    [patientId |-> body.patientId,
     systolic |-> body.systolic,
     diastolic |-> body.diastolic,
     timestamp |-> t,
     source |-> IF FalsyString(Get(body, "source")) THEN "patient-app" ELSE body.source,
     status |-> getReadingStatus(body.systolic, 0)]
    @@ Field("pulse", Get(body, "pulse"))
    @@ Field("deviceId", Get(body, "deviceId"))
    @@ Field("patientNote", Get(body, "patientNote"))

\* the reading document POST builds from a validated body
readingData(body, t) ==
    [patientId |-> body.patientId,
     systolic |-> body.systolic,
     diastolic |-> body.diastolic,
     timestamp |-> t,
     source |-> IF FalsyString(Get(body, "source")) THEN "patient-app" ELSE body.source,
     status |-> getReadingStatus(body.systolic, body.diastolic)]
    @@ Field("pulse", Get(body, "pulse"))
    @@ Field("deviceId", Get(body, "deviceId"))
    @@ Field("patientNote", Get(body, "patientNote"))

ValidationError_NoUpperLimit(body) ==
    IF \/ FalsyString(Get(body, "patientId"))
       \/ FalsyNumber(Get(body, "systolic"))
       \/ FalsyNumber(Get(body, "diastolic"))
    THEN <<"patientId, systolic, and diastolic are required">>
    ELSE IF body.systolic < 60
    THEN <<"Invalid systolic value">>
    ELSE IF body.diastolic < 40
    THEN <<"Invalid diastolic value">>
    ELSE Undefined

\* POST's validation: the error of the 400 response, or Undefined
ValidationError(body) ==
    IF \/ FalsyString(Get(body, "patientId"))
       \/ FalsyNumber(Get(body, "systolic"))
       \/ FalsyNumber(Get(body, "diastolic"))
    THEN <<"patientId, systolic, and diastolic are required">>
    ELSE IF body.systolic < 60 \/ body.systolic > 300
    THEN <<"Invalid systolic value">>
    ELSE IF body.diastolic < 40 \/ body.diastolic > 200
    THEN <<"Invalid diastolic value">>
    ELSE Undefined

ShouldAlert_CriticalOnly(status) == status = "critical"

\* POST's test for raising an alert
ShouldAlert(status) == status = "critical" \/ status = "high"

\* POST /api/readings: the collections and the response it leaves
PostReadingsOutcome(body, fault, t) ==
    IF ValidationError(body) # Undefined
    THEN [readings |-> readings, alerts |-> alerts,
          response |-> [status |-> 400, error |-> ValidationError(body)[1]]]
    ELSE IF ~isAdminConfigured
    THEN [readings |-> readings, alerts |-> alerts,
          response |-> [status |-> 201,
                        body |-> [id |-> "reading-" \o NumberToString(t)]
                                 @@ readingData(body, t)]]
    ELSE IF fault = "readings.add"
    THEN [readings |-> readings, alerts |-> alerts,
          response |-> [status |-> 500, error |-> "Failed to create reading"]]
    ELSE LET savedReading == [id |-> ReadingDocId(Len(readings) + 1)]
                             @@ readingData(body, t)
             alerting == IF ShouldAlert(savedReading.status)
                         THEN createAlertForReading(savedReading, fault, t)
                         ELSE [alerts |-> alerts, threw |-> FALSE]
         IN [readings |-> Append(readings, readingData(body, t)),
             alerts |-> alerting.alerts,
             response |-> IF alerting.threw
                          THEN [status |-> 500, error |-> "Failed to create reading"]
                          ELSE [status |-> 201, body |-> savedReading]]

PostFaults == {"none", "readings.add", "patients.get", "alerts.add"}

POST(body, fault) ==
    \E t \in Clock :
        LET out == PostReadingsOutcome(body, fault, t)
        IN /\ now' = t
           /\ last' = [op |-> "POST", via |-> "api", body |-> body, fault |-> fault]
           /\ readings' = out.readings
           /\ alerts' = out.alerts
           /\ response' = out.response
           /\ UNCHANGED <<conversations, selectedConversation, searchQuery,
                   isAdminConfigured, uiAlerts, statusFilter, probe, pending,
                   peerAlerts>>

-----------------------------------------------------------------------------
(* app/api/blood-pressure/route.ts: the alias endpoint of the patient app,
   with its own copies of getReadingStatus and createAlertForReading *)

\* the alias's own getReadingStatus
BloodPressureGetReadingStatus(systolic, diastolic) ==
    IF systolic >= 180 \/ diastolic >= 120 THEN "critical"
    ELSE IF systolic >= 140 \/ diastolic >= 90 THEN "high"
    ELSE IF systolic >= 130 \/ diastolic >= 80 THEN "elevated"
    ELSE "normal"

\* the alias's own createAlertForReading, with the alert document it builds
BloodPressureCreateAlertForReading(reading, fault, t) ==
    IF fault \in {"patients.get", "alerts.add"}
    THEN [alerts |-> alerts, threw |-> FALSE]
    ELSE [alerts |->
             Append(alerts,
                [patientId |-> reading.patientId,
                 patientName |-> ResolvePatientName(reading.patientId),
                 type |-> IF reading.status = "critical" THEN "critical-bp"
                          ELSE "high-bp",
                 severity |-> IF reading.status = "critical" THEN "critical"
                              ELSE "warning",
                 status |-> "new",
                 title |-> IF reading.status = "critical"
                           THEN "Critical Blood Pressure Alert"
                           ELSE "High Blood Pressure Alert",
                 description |-> "Blood pressure reading of "
                                 \o NumberToString(reading.systolic) \o "/"
                                 \o NumberToString(reading.diastolic)
                                 \o " mmHg requires attention.",
                 relatedReadingId |-> reading.id,
                 triggerValue |-> NumberToString(reading.systolic) \o "/"
                                  \o NumberToString(reading.diastolic),
                 createdAt |-> t]),
          threw |-> FALSE]

\* the reading document the alias builds from a validated body
BloodPressureReadingData(body, t) ==
    [patientId |-> body.patientId,
     systolic |-> body.systolic,
     diastolic |-> body.diastolic,
     timestamp |-> t,
     source |-> IF FalsyString(Get(body, "source")) THEN "patient-app" ELSE body.source,
     status |-> BloodPressureGetReadingStatus(body.systolic, body.diastolic)]
    @@ Field("pulse", Get(body, "pulse"))
    @@ Field("deviceId", Get(body, "deviceId"))
    @@ Field("patientNote", Get(body, "patientNote"))

BloodPressureValidationError_NoLowerLimit(body) ==
    IF \/ FalsyString(Get(body, "patientId"))
       \/ IsNullish(Get(body, "systolic"))
       \/ IsNullish(Get(body, "diastolic"))
    THEN <<"patientId, systolic, and diastolic are required">>
    ELSE IF body.systolic > 300
    THEN <<"Invalid systolic value (must be 60-300)">>
    ELSE IF body.diastolic > 200
    THEN <<"Invalid diastolic value (must be 40-200)">>
    ELSE Undefined

\* the alias's validation: the error of the 400 response, or Undefined
BloodPressureValidationError(body) ==
    IF \/ FalsyString(Get(body, "patientId"))
       \/ IsNullish(Get(body, "systolic"))
       \/ IsNullish(Get(body, "diastolic"))
    THEN <<"patientId, systolic, and diastolic are required">>
    ELSE IF body.systolic < 60 \/ body.systolic > 300
    THEN <<"Invalid systolic value (must be 60-300)">>
    ELSE IF body.diastolic < 40 \/ body.diastolic > 200
    THEN <<"Invalid diastolic value (must be 40-200)">>
    ELSE Undefined

\* POST /api/blood-pressure: the collections and the response it leaves
PostBloodPressureOutcome(body, fault, t) ==
    IF BloodPressureValidationError(body) # Undefined
    THEN [readings |-> readings, alerts |-> alerts,
          response |-> [status |-> 400, error |-> BloodPressureValidationError(body)[1]]]
    ELSE IF ~isAdminConfigured
    THEN [readings |-> readings, alerts |-> alerts,
          response |-> [status |-> 201, success |-> TRUE,
                        reading |-> [id |-> "reading-" \o NumberToString(t)]
                                    @@ BloodPressureReadingData(body, t)]]
    ELSE IF fault = "readings.add"
    THEN [readings |-> readings, alerts |-> alerts,
          response |-> [status |-> 500, error |-> "Server error", details |-> fault]]
    ELSE LET savedReading == [id |-> ReadingDocId(Len(readings) + 1)]
                             @@ BloodPressureReadingData(body, t)
             alerting == IF savedReading.status = "critical" \/ savedReading.status = "high"
                         THEN BloodPressureCreateAlertForReading(savedReading, fault, t)
                         ELSE [alerts |-> alerts, threw |-> FALSE]
         IN [readings |-> Append(readings, BloodPressureReadingData(body, t)),
             alerts |-> alerting.alerts,
             response |-> IF alerting.threw
                          THEN [status |-> 500, error |-> "Server error",
                                details |-> fault]
                          ELSE [status |-> 201, success |-> TRUE,
                                reading |-> savedReading]]

POSTBloodPressure(body, fault) ==
    \E t \in Clock :
        LET out == PostBloodPressureOutcome(body, fault, t)
        IN /\ now' = t
           /\ last' = [op |-> "POST /api/blood-pressure", via |-> "api",
                       body |-> body, fault |-> fault]
           /\ readings' = out.readings
           /\ alerts' = out.alerts
           /\ response' = out.response
           /\ UNCHANGED <<conversations, selectedConversation, searchQuery,
                   isAdminConfigured, uiAlerts, statusFilter, probe, pending,
                   peerAlerts>>

-----------------------------------------------------------------------------
(* A reading submission as the steps its awaits divide it into.  Both ingestion
   handlers await readingsRef.add, and then, inside createAlertForReading,
   the patient lookup and alertsRef.add; between two awaits of one request
   another request may run.  The patient profiles are never written, so the
   lookup is taken together with the alert write that follows it. *)

Endpoints == {"/api/readings", "/api/blood-pressure"}

Slots == 1..MaxSubmissions

\* a request slot before its request arrives
Idle == [pc |-> "idle", endpoint |-> "", fault |-> "none", reading |-> <<>>,
         response |-> <<>>, wrote |-> <<>>]

\* the 201 response of an endpoint for a reading
CreatedResponse(endpoint, reading) ==
    IF endpoint = "/api/readings"
    THEN [status |-> 201, body |-> reading]
    ELSE [status |-> 201, success |-> TRUE, reading |-> reading]

\* the 500 response of an endpoint's catch block
FailedResponse(endpoint, fault) ==
    IF endpoint = "/api/readings"
    THEN [status |-> 500, error |-> "Failed to create reading"]
    ELSE [status |-> 500, error |-> "Server error", details |-> fault]

\* the validation error of an endpoint for a body, or Undefined
EndpointValidationError(endpoint, body) ==
    IF endpoint = "/api/readings" THEN ValidationError(body)
    ELSE BloodPressureValidationError(body)

FirestoreAdd_Overwrites(coll, doc) ==
    IF coll = <<>> THEN <<doc>> ELSE [coll EXCEPT ![Len(coll)] = doc]

\* CollectionReference.add: a new document after those the collection holds
FirestoreAdd(coll, doc) == Append(coll, doc)

SaveReadingOutcome_AlertsWithoutReading(endpoint, body, fault, t) ==
    IF EndpointValidationError(endpoint, body) # Undefined
    THEN [readings |-> readings, pc |-> "done", reading |-> <<>>,
          response |-> <<[status |-> 400,
                          error |-> EndpointValidationError(endpoint, body)[1]]>>]
    ELSE IF ~isAdminConfigured
    THEN [readings |-> readings, pc |-> "done", reading |-> <<>>,
          response |-> <<CreatedResponse(endpoint,
                             [id |-> "reading-" \o NumberToString(t)]
                             @@ readingData(body, t))>>]
    ELSE IF fault = "readings.add"
    THEN [readings |-> readings, pc |-> "alerting",
          reading |-> <<[id |-> ReadingDocId(Len(readings) + 1)]
                        @@ readingData(body, t)>>,
          response |-> <<>>]
    ELSE LET savedReading == [id |-> ReadingDocId(Len(readings) + 1)]
                             @@ readingData(body, t)
         IN IF ShouldAlert(savedReading.status)
            THEN [readings |-> FirestoreAdd(readings, readingData(body, t)),
                  pc |-> "alerting", reading |-> <<savedReading>>,
                  response |-> <<>>]
            ELSE [readings |-> FirestoreAdd(readings, readingData(body, t)),
                  pc |-> "done", reading |-> <<savedReading>>,
                  response |-> <<CreatedResponse(endpoint, savedReading)>>]

\* a handler from its entry to the return of readingsRef.add: the readings
\* collection afterwards, where the request stands, the reading it saved and
\* the response it has sent, if any
SaveReadingOutcome(endpoint, body, fault, t) ==
    IF EndpointValidationError(endpoint, body) # Undefined
    THEN [readings |-> readings, pc |-> "done", reading |-> <<>>,
          response |-> <<[status |-> 400,
                          error |-> EndpointValidationError(endpoint, body)[1]]>>]
    ELSE IF ~isAdminConfigured
    THEN [readings |-> readings, pc |-> "done", reading |-> <<>>,
          response |-> <<CreatedResponse(endpoint,
                             [id |-> "reading-" \o NumberToString(t)]
                             @@ readingData(body, t))>>]
    ELSE IF fault = "readings.add"
    THEN [readings |-> readings, pc |-> "done", reading |-> <<>>,
          response |-> <<FailedResponse(endpoint, fault)>>]
    ELSE LET savedReading == [id |-> ReadingDocId(Len(readings) + 1)]
                             @@ readingData(body, t)
         IN IF ShouldAlert(savedReading.status)
            THEN [readings |-> FirestoreAdd(readings, readingData(body, t)),
                  pc |-> "alerting", reading |-> <<savedReading>>,
                  response |-> <<>>]
            ELSE [readings |-> FirestoreAdd(readings, readingData(body, t)),
                  pc |-> "done", reading |-> <<savedReading>>,
                  response |-> <<CreatedResponse(endpoint, savedReading)>>]

\* the writes a step added to a collection, as entries of a request's log
Wrote(before, after, name) == [i \in 1..(Len(after) - Len(before)) |-> name]

\* a request arrives in slot s and runs to the return of readingsRef.add
PostSaveReading(s, endpoint, body, fault) ==
    /\ pending[s].pc = "idle"
    /\ \A r \in Slots : r < s => pending[r].pc # "idle"
    /\ \E t \in Clock :
          LET out == SaveReadingOutcome(endpoint, body, fault, t)
          IN /\ now' = t
             /\ last' = [op |-> "POST: readingsRef.add", via |-> endpoint,
                         body |-> body, fault |-> fault, slot |-> s]
             /\ readings' = out.readings
             /\ pending' = [pending EXCEPT ![s] =
                               [pc |-> out.pc, endpoint |-> endpoint,
                                fault |-> fault, reading |-> out.reading,
                                response |-> out.response,
                                wrote |-> Wrote(readings, out.readings, "readings")]]
             /\ response' = IF out.response = <<>> THEN response
                            ELSE out.response[1]
             /\ UNCHANGED <<conversations, selectedConversation, searchQuery,
                   isAdminConfigured, alerts, uiAlerts, statusFilter, probe,
                   peerAlerts>>

\* the request in slot s runs createAlertForReading and sends its response
PostCreateAlert(s) ==
    /\ pending[s].pc = "alerting"
    /\ \E t \in Clock :
          LET reading == pending[s].reading[1]
              out == createAlertForReading(reading, pending[s].fault, t)
              resp == IF out.threw
                      THEN FailedResponse(pending[s].endpoint, pending[s].fault)
                      ELSE CreatedResponse(pending[s].endpoint, reading)
          IN /\ now' = t
             /\ last' = [op |-> "POST: createAlertForReading",
                         via |-> pending[s].endpoint, fault |-> pending[s].fault,
                         slot |-> s]
             /\ alerts' = out.alerts
             /\ pending' = [pending EXCEPT
                               ![s].pc = "done",
                               ![s].response = <<resp>>,
                               ![s].wrote = @ \o Wrote(alerts, out.alerts, "alerts")]
             /\ response' = resp
             /\ UNCHANGED <<conversations, selectedConversation, searchQuery,
                   isAdminConfigured, readings, uiAlerts, statusFilter, probe,
                   peerAlerts>>

-----------------------------------------------------------------------------
(* app/api/alerts/route.ts *)

\* position in the alerts collection of the document with this id, or 0
AlertIndex(alertId) ==
    IF \E n \in 1..Len(alerts) : AlertDocId(n) = alertId
    THEN CHOOSE n \in 1..Len(alerts) : AlertDocId(n) = alertId
    ELSE 0

updateData_AcknowledgeTakesResolution(status, resolution, t) ==
    IF status = "acknowledged"
    THEN [status |-> status, acknowledgedAt |-> t]
         @@ (IF FalsyString(resolution) THEN <<>> ELSE "resolution" :> resolution[1])
    ELSE IF status = "resolved"
    THEN [status |-> status, resolvedAt |-> t, resolvedBy |-> "clinician-001"]
         @@ (IF FalsyString(resolution) THEN <<>> ELSE "resolution" :> resolution[1])
    ELSE [status |-> status]

updateData_ResolveStampsAcknowledged(status, resolution, t) ==
    IF status = "acknowledged"
    THEN [status |-> status, acknowledgedAt |-> t]
    ELSE IF status = "resolved"
    THEN [status |-> status, acknowledgedAt |-> t, resolvedAt |-> t,
          resolvedBy |-> "clinician-001"]
         @@ (IF FalsyString(resolution) THEN <<>> ELSE "resolution" :> resolution[1])
    ELSE [status |-> status]

\* the fields PATCH writes for a target status
updateData(status, resolution, t) ==
    IF status = "acknowledged"
    THEN [status |-> status, acknowledgedAt |-> t]
    ELSE IF status = "resolved"
    THEN [status |-> status, resolvedAt |-> t, resolvedBy |-> "clinician-001"]
         @@ (IF FalsyString(resolution) THEN <<>> ELSE "resolution" :> resolution[1])
    ELSE [status |-> status]

FirestoreUpdate_Replaces(doc, data) == data

\* DocumentReference.update: the named fields are overwritten, the others kept
FirestoreUpdate(doc, data) == data @@ doc

PatchAlertsOutcome_Upserts(body, fault, t) ==
    IF ~isAdminConfigured
    THEN [alerts |-> alerts,
          response |-> [status |-> 503, error |-> "Firebase not configured"]]
    ELSE IF FalsyString(Get(body, "alertId")) \/ FalsyString(Get(body, "status"))
    THEN [alerts |-> alerts,
          response |-> [status |-> 400, error |-> "alertId and status are required"]]
    ELSE IF fault = "alerts.update"
    THEN [alerts |-> alerts,
          response |-> [status |-> 500, error |-> "Failed to update alert"]]
    ELSE IF AlertIndex(body.alertId) = 0
    THEN [alerts |-> Append(alerts, updateData(body.status,
                                               Get(body, "resolution"), t)),
          response |-> [status |-> 200, success |-> TRUE]]
    ELSE [alerts |-> [alerts EXCEPT ![AlertIndex(body.alertId)] =
                         FirestoreUpdate(@, updateData(body.status,
                                                       Get(body, "resolution"), t))],
          response |-> [status |-> 200, success |-> TRUE]]

\* PATCH /api/alerts: the alerts collection and the response it leaves.
\* update() rejects when the document does not exist, as when the store fails.
PatchAlertsOutcome(body, fault, t) ==
    IF ~isAdminConfigured
    THEN [alerts |-> alerts,
          response |-> [status |-> 503, error |-> "Firebase not configured"]]
    ELSE IF FalsyString(Get(body, "alertId")) \/ FalsyString(Get(body, "status"))
    THEN [alerts |-> alerts,
          response |-> [status |-> 400, error |-> "alertId and status are required"]]
    ELSE IF AlertIndex(body.alertId) = 0 \/ fault = "alerts.update"
    THEN [alerts |-> alerts,
          response |-> [status |-> 500, error |-> "Failed to update alert"]]
    ELSE [alerts |-> [alerts EXCEPT ![AlertIndex(body.alertId)] =
                         FirestoreUpdate(@, updateData(body.status,
                                                       Get(body, "resolution"), t))],
          response |-> [status |-> 200, success |-> TRUE]]

PatchFaults == {"none", "alerts.update"}

\* an update request body; every argument is Undefined or <<value>>
PatchBody(alertId, status, resolution) ==
    Field("alertId", alertId) @@ Field("status", status)
    @@ Field("resolution", resolution)

PATCH(body, fault) ==
    \E t \in Clock :
        LET out == PatchAlertsOutcome(body, fault, t)
        IN /\ now' = t
           /\ last' = [op |-> "PATCH", via |-> "api", body |-> body, fault |-> fault]
           /\ alerts' = out.alerts
           /\ response' = out.response
           /\ UNCHANGED <<conversations, selectedConversation, searchQuery,
                   isAdminConfigured, readings, uiAlerts, statusFilter, probe, pending,
                   peerAlerts>>

\* the alerts collection as documents with their ids, in collection order
AlertsWithIds == [n \in 1..Len(alerts) |-> [id |-> AlertDocId(n)] @@ alerts[n]]

FilterSeq_KeepsAll(list, f, v) == list

RECURSIVE FilterSeq(_, _, _)
\* Array.prototype.filter on field f equal to string v
FilterSeq(list, f, v) ==
    IF list = <<>> THEN <<>>
    ELSE IF Head(list)[f] = v
         THEN <<Head(list)>> \o FilterSeq(Tail(list), f, v)
         ELSE FilterSeq(Tail(list), f, v)

RECURSIVE InsertByCreatedAtDesc(_, _)
\* insert a after every element created no earlier than it (the sort is stable)
InsertByCreatedAtDesc(list, a) ==
    IF list = <<>> THEN <<a>>
    ELSE IF Head(list).createdAt >= a.createdAt
         THEN <<Head(list)>> \o InsertByCreatedAtDesc(Tail(list), a)
         ELSE <<a>> \o list

RECURSIVE SortByCreatedAtDesc(_)
\* alerts.sort((a, b) => b.createdAt - a.createdAt): newest first, stable
SortByCreatedAtDesc(list) ==
    IF list = <<>> THEN <<>>
    ELSE InsertByCreatedAtDesc(SortByCreatedAtDesc(SubSeq(list, 1, Len(list) - 1)),
                               list[Len(list)])

HourMs == 60 * 60 * 1000

generateDemoAlerts(t) ==
    << [id |-> "demo-alert-1", patientId |-> "P-2025-001",
        patientName |-> "Maria Rodriguez", type |-> "critical-bp",
        severity |-> "critical", status |-> "new",
        title |-> "Severe Hypertension Alert",
        description |-> "Patient's blood pressure has exceeded critical threshold. Last medication taken 3 days ago. Immediate intervention required.",
        relatedReadingId |-> "reading-demo-1", triggerValue |-> "185/110",
        createdAt |-> t - 2 * HourMs],
       [id |-> "demo-alert-2", patientId |-> "P-2025-002",
        patientName |-> "Robert Thompson", type |-> "critical-bp",
        severity |-> "critical", status |-> "new",
        title |-> "Critical BP Reading",
        description |-> "Elderly patient with comorbid CKD showing dangerously elevated BP. Risk of hypertensive crisis.",
        relatedReadingId |-> "reading-demo-2", triggerValue |-> "192/118",
        createdAt |-> t - 4 * HourMs],
       [id |-> "demo-alert-3", patientId |-> "P-2025-003",
        patientName |-> "James Wilson", type |-> "high-bp",
        severity |-> "warning", status |-> "acknowledged",
        title |-> "Elevated BP Trend",
        description |-> "Blood pressure showing consistent upward trend over past week. Patient reported stress from work.",
        relatedReadingId |-> "reading-demo-3", triggerValue |-> "165/95",
        createdAt |-> t - 6 * HourMs, acknowledgedAt |-> t - 5 * HourMs],
       [id |-> "demo-alert-4", patientId |-> "P-2025-004",
        patientName |-> "Linda Martinez", type |-> "follow-up-due",
        severity |-> "warning", status |-> "new",
        title |-> "Medication Adjustment Needed",
        description |-> "Recent medication change not showing expected results. Consider dose adjustment or alternative.",
        relatedReadingId |-> "reading-demo-4", triggerValue |-> "148/92",
        createdAt |-> t - 8 * HourMs],
       [id |-> "demo-alert-5", patientId |-> "P-2025-011",
        patientName |-> "Patricia Lee", type |-> "missed-reading",
        severity |-> "info", status |-> "new",
        title |-> "Missed Reading Alert",
        description |-> "Patient has not submitted BP readings for 5 days. Device connectivity issue reported.",
        triggerValue |-> "-/-",    \* an em dash either side in the source
        createdAt |-> t - 12 * HourMs] >>

\* GET /api/alerts?status=&severity= : the response; a parameter is Undefined
\* or <<value>>, and an empty value does not filter
GetAlertsOutcome(status, severity, fault, t) ==
    IF ~isAdminConfigured
    THEN [status |-> 200, alerts |-> generateDemoAlerts(t),
          total |-> Len(generateDemoAlerts(t))]
    ELSE IF fault = "alerts.get"
    THEN [status |-> 500, error |-> "Failed to fetch alerts"]
    ELSE LET all == AlertsWithIds
             byStatus == IF FalsyString(status) THEN all
                         ELSE FilterSeq(all, "status", status[1])
             bySeverity == IF FalsyString(severity) THEN byStatus
                           ELSE FilterSeq(byStatus, "severity", severity[1])
             sorted == SortByCreatedAtDesc(bySeverity)
         IN [status |-> 200, alerts |-> sorted, total |-> Len(sorted)]

GetFaults == {"none", "alerts.get"}

\* GET /api/alerts called by any client; a parameter is Undefined or <<value>>
GET(status, severity, fault) ==
    \E t \in Clock :
        /\ now' = t
        /\ last' = [op |-> "GET", via |-> "api", status |-> status,
                    severity |-> severity, fault |-> fault]
        /\ response' = GetAlertsOutcome(status, severity, fault, t)
        /\ UNCHANGED <<conversations, selectedConversation, searchQuery,
                   isAdminConfigured, readings, alerts, uiAlerts, statusFilter,
                       probe, pending, peerAlerts>>

-----------------------------------------------------------------------------
(* app/alerts/page.tsx *)

\* `${n} ${unit}${n > 1 ? 's' : ''} ago`
Ago(n, unit) == NumberToString(n) \o " " \o unit \o (IF n > 1 THEN "s" ELSE "") \o " ago"

formatRelativeTime(isoString, t) ==
    LET hoursDiff == (t - isoString) \div HourMs
    IN IF hoursDiff < 1 THEN "Just now"
       ELSE IF hoursDiff < 24 THEN Ago(hoursDiff, "hour")
       ELSE Ago(hoursDiff \div 24, "day")

\* the page's conversion of an API alert to its UI format
ToUIAlert(alert, t) ==
    [id |-> alert.id,
     status |-> alert.status,
     level |-> IF alert.severity = "critical" THEN "critical"
               ELSE IF alert.severity = "warning" THEN "moderate" ELSE "low",
     time |-> formatRelativeTime(alert.createdAt, t),
     title |-> alert.title,
     patient |-> alert.patientName,
     patientId |-> alert.patientId,
     location |-> "San Francisco, CA",
     bp |-> IF Has(alert, "triggerValue") THEN alert.triggerValue ELSE "-/-",
     desc |-> alert.description,
     avatar |-> "https://api.dicebear.com/7.x/avataaars/svg?seed=" \o alert.patientId]
    @@ (IF Has(alert, "acknowledgedAt")
        THEN "acknowledgedAt" :> formatRelativeTime(alert.acknowledgedAt, t) ELSE <<>>)
    @@ (IF Has(alert, "resolvedAt")
        THEN "resolvedAt" :> formatRelativeTime(alert.resolvedAt, t) ELSE <<>>)
    @@ (IF Has(alert, "resolution") THEN "resolution" :> alert.resolution ELSE <<>>)

\* the page's fallback list; its ids are the numbers 1..5 in the source, which
\* name no stored alert, as the strings "1".."5" here
demoAlerts ==
    << [id |-> "1", status |-> "new", level |-> "critical", time |-> "2 hours ago",
        title |-> "Severe Hypertension Alert", patient |-> "Maria Rodriguez",
        patientId |-> "P-2025-001", location |-> "Rural Zone A", bp |-> "185/110",
        prevBp |-> "175/105", adherence |-> "45%",
        desc |-> "Patient's blood pressure has exceeded critical threshold. Last medication taken 3 days ago. Immediate intervention required.",
        avatar |-> "https://api.dicebear.com/7.x/avataaars/svg?seed=Maria"],
       [id |-> "2", status |-> "new", level |-> "critical", time |-> "4 hours ago",
        title |-> "Critical BP Reading", patient |-> "Robert Thompson",
        patientId |-> "P-2025-002", location |-> "Rural Zone C", bp |-> "192/118",
        prevBp |-> "180/108", adherence |-> "45%",
        desc |-> "Elderly patient with comorbid CKD showing dangerously elevated BP. Risk of hypertensive crisis.",
        avatar |-> "https://api.dicebear.com/7.x/avataaars/svg?seed=Robert"],
       [id |-> "3", status |-> "acknowledged", level |-> "moderate",
        time |-> "6 hours ago", title |-> "Elevated BP Trend",
        patient |-> "James Wilson", patientId |-> "P-2025-003",
        location |-> "Rural Zone B", bp |-> "165/95", adherence |-> "68%",
        desc |-> "Blood pressure showing consistent upward trend over past week. Patient reported stress from work.",
        avatar |-> "https://api.dicebear.com/7.x/avataaars/svg?seed=James",
        acknowledgedAt |-> "5 hours ago"],
       [id |-> "4", status |-> "new", level |-> "moderate", time |-> "8 hours ago",
        title |-> "Medication Adjustment Needed", patient |-> "Linda Martinez",
        patientId |-> "P-2025-004", location |-> "Rural Zone A", bp |-> "148/92",
        adherence |-> "78%",
        desc |-> "Recent medication change not showing expected results. Consider dose adjustment or alternative.",
        avatar |-> "https://api.dicebear.com/7.x/avataaars/svg?seed=Linda"],
       [id |-> "5", status |-> "new", level |-> "low", time |-> "12 hours ago",
        title |-> "Missed Reading Alert", patient |-> "Patricia Lee",
        patientId |-> "P-2025-011", location |-> "Rural Zone B", bp |-> "-/-",
        adherence |-> "60%",
        desc |-> "Patient has not submitted BP readings for 5 days. Device connectivity issue reported.",
        avatar |-> "https://api.dicebear.com/7.x/avataaars/svg?seed=Patricia"] >>

\* response.ok
Ok(resp) == resp.status >= 200 /\ resp.status <= 299

\* fetchAlerts: load the list from GET /api/alerts, or fall back to demoAlerts
fetchAlerts(fault) ==
    \E t \in Clock :
        LET resp == GetAlertsOutcome(Undefined, Undefined, fault, t)
        IN /\ now' = t
           /\ last' = [op |-> "GET", via |-> "page", fault |-> fault]
           /\ response' = resp
           /\ uiAlerts' = IF Ok(resp)
                          THEN [n \in 1..Len(resp.alerts) |-> ToUIAlert(resp.alerts[n], t)]
                          ELSE demoAlerts
           /\ UNCHANGED <<conversations, selectedConversation, searchQuery,
                   isAdminConfigured, readings, alerts, statusFilter, probe, pending,
                   peerAlerts>>

\* is the n-th local alert rendered under the current status filter
Displayed(n) ==
    /\ n \in 1..Len(uiAlerts)
    /\ IF statusFilter = "all" THEN uiAlerts[n].status # "resolved"
       ELSE uiAlerts[n].status = statusFilter

\* setAlerts(prev => prev.map(alert => alert.id === alertId ? {...alert, ...patch} : alert))
PatchLocal(alertId, patch) ==
    [n \in 1..Len(uiAlerts) |->
        IF uiAlerts[n].id = alertId THEN patch @@ uiAlerts[n] ELSE uiAlerts[n]]

PageUpdate_Optimistic(alertId, body, patch, fault) ==
    \E t \in Clock :
        LET out == PatchAlertsOutcome(body, fault, t)
        IN /\ now' = t
           /\ last' = [op |-> "PATCH", via |-> "page", body |-> body, fault |-> fault]
           /\ alerts' = out.alerts
           /\ response' = out.response
           /\ uiAlerts' = PatchLocal(alertId, patch)
           /\ UNCHANGED <<conversations, selectedConversation, searchQuery,
                   isAdminConfigured, readings, statusFilter, probe, pending,
                   peerAlerts>>

\* the page sends a PATCH and, when the response is ok, patches its local list
PageUpdate(alertId, body, patch, fault) ==
    \E t \in Clock :
        LET out == PatchAlertsOutcome(body, fault, t)
        IN /\ now' = t
           /\ last' = [op |-> "PATCH", via |-> "page", body |-> body, fault |-> fault]
           /\ alerts' = out.alerts
           /\ response' = out.response
           /\ uiAlerts' = IF Ok(out.response) THEN PatchLocal(alertId, patch)
                          ELSE uiAlerts
           /\ UNCHANGED <<conversations, selectedConversation, searchQuery,
                   isAdminConfigured, readings, statusFilter, probe, pending,
                   peerAlerts>>

\* the Acknowledge button, rendered for a displayed alert whose status is new
acknowledgeAlert(n, fault) ==
    /\ Displayed(n)
    /\ uiAlerts[n].status = "new"
    /\ PageUpdate(uiAlerts[n].id,
                  [alertId |-> uiAlerts[n].id, status |-> "acknowledged"],
                  [status |-> "acknowledged", acknowledgedAt |-> "Just now"],
                  fault)

\* the Resolve button, rendered for every other displayed alert
resolveAlert(n, fault) ==
    /\ Displayed(n)
    /\ uiAlerts[n].status # "new"
    /\ PageUpdate(uiAlerts[n].id,
                  [alertId |-> uiAlerts[n].id, status |-> "resolved",
                   resolution |-> "Issue addressed by clinician"],
                  [status |-> "resolved", resolvedAt |-> "Just now"],
                  fault)

handleCall_Resolves(n) ==
    /\ Displayed(n)
    /\ last' = [op |-> "handleCall", via |-> "page", alertId |-> uiAlerts[n].id]
    /\ uiAlerts' = PatchLocal(uiAlerts[n].id, [status |-> "resolved"])
    /\ UNCHANGED <<conversations, selectedConversation, searchQuery,
                   isAdminConfigured, readings, alerts, now, response,
                   statusFilter, probe, pending, peerAlerts,
                   peerAlerts>>

\* the Call button: logs, and writes nothing
handleCall(n) ==
    /\ Displayed(n)
    /\ last' = [op |-> "handleCall", via |-> "page", alertId |-> uiAlerts[n].id]
    /\ UNCHANGED <<conversations, selectedConversation, searchQuery,
                   isAdminConfigured, readings, alerts, now, response, uiAlerts,
                   statusFilter, probe, pending, peerAlerts,
                   peerAlerts>>

\* the Message button: logs, and writes nothing
handleMessage(n) ==
    /\ Displayed(n)
    /\ last' = [op |-> "handleMessage", via |-> "page", alertId |-> uiAlerts[n].id]
    /\ UNCHANGED <<conversations, selectedConversation, searchQuery,
                   isAdminConfigured, readings, alerts, now, response, uiAlerts,
                   statusFilter, probe, pending, peerAlerts,
                   peerAlerts>>

\* the status <select>
setStatusFilter(f) ==
    /\ statusFilter' = f
    /\ last' = [op |-> "setStatusFilter", via |-> "page", filter |-> f]
    /\ UNCHANGED <<conversations, selectedConversation, searchQuery,
                   isAdminConfigured, readings, alerts, now, response, uiAlerts, probe, pending,
                   peerAlerts>>

-----------------------------------------------------------------------------
(* app/alerts/page.tsx open a second time: another clinician's session runs
   the same handlers on a list of its own; its status filter stays "all" *)

\* the second session's fetchAlerts
peerFetchAlerts(fault) ==
    \E t \in Clock :
        LET resp == GetAlertsOutcome(Undefined, Undefined, fault, t)
        IN /\ now' = t
           /\ last' = [op |-> "GET", via |-> "peer page", fault |-> fault]
           /\ response' = resp
           /\ peerAlerts' = IF Ok(resp)
                            THEN [n \in 1..Len(resp.alerts) |->
                                     ToUIAlert(resp.alerts[n], t)]
                            ELSE demoAlerts
           /\ UNCHANGED <<conversations, selectedConversation, searchQuery,
                   isAdminConfigured, readings, alerts, uiAlerts,
                          statusFilter, probe, pending>>

\* is the n-th alert of the second session rendered (its filter is "all")
PeerDisplayed(n) ==
    /\ n \in 1..Len(peerAlerts)
    /\ peerAlerts[n].status # "resolved"

\* the second session's setAlerts(prev => prev.map(...))
PeerPatchLocal(alertId, patch) ==
    [n \in 1..Len(peerAlerts) |->
        IF peerAlerts[n].id = alertId THEN patch @@ peerAlerts[n] ELSE peerAlerts[n]]

\* the second session sends a PATCH and patches its list when the response is ok
PeerPageUpdate(alertId, body, patch, fault) ==
    \E t \in Clock :
        LET out == PatchAlertsOutcome(body, fault, t)
        IN /\ now' = t
           /\ last' = [op |-> "PATCH", via |-> "peer page", body |-> body,
                       fault |-> fault]
           /\ alerts' = out.alerts
           /\ response' = out.response
           /\ peerAlerts' = IF Ok(out.response) THEN PeerPatchLocal(alertId, patch)
                            ELSE peerAlerts
           /\ UNCHANGED <<conversations, selectedConversation, searchQuery,
                   isAdminConfigured, readings, uiAlerts, statusFilter,
                          probe, pending>>

\* the second session's Acknowledge button
peerAcknowledgeAlert(n, fault) ==
    /\ PeerDisplayed(n)
    /\ peerAlerts[n].status = "new"
    /\ PeerPageUpdate(peerAlerts[n].id,
                      [alertId |-> peerAlerts[n].id, status |-> "acknowledged"],
                      [status |-> "acknowledged", acknowledgedAt |-> "Just now"],
                      fault)

\* the second session's Resolve button
peerResolveAlert(n, fault) ==
    /\ PeerDisplayed(n)
    /\ peerAlerts[n].status # "new"
    /\ PeerPageUpdate(peerAlerts[n].id,
                      [alertId |-> peerAlerts[n].id, status |-> "resolved",
                       resolution |-> "Issue addressed by clinician"],
                      [status |-> "resolved", resolvedAt |-> "Just now"],
                      fault)

-----------------------------------------------------------------------------
(* types/api.ts *)

calculateReadingStatus(systolic, diastolic) ==
    IF systolic >= 180 \/ diastolic >= 120 THEN "critical"
    ELSE IF systolic >= 140 \/ diastolic >= 90 THEN "high"
    ELSE IF systolic >= 130 \/ diastolic >= 80 THEN "elevated"
    ELSE "normal"

-----------------------------------------------------------------------------
(* the classification rules written inline where readings are generated *)

\* app/api/patients/[id]/route.ts, generateMockReadings: status of a mock reading
generateMockReadingsStatus(systolic, diastolic) ==
    IF systolic >= 180 \/ diastolic >= 120 THEN "critical"
    ELSE IF systolic >= 140 \/ diastolic >= 90 THEN "high"
    ELSE IF systolic >= 130 \/ diastolic >= 80 THEN "elevated"
    ELSE "normal"

generateReadingsStatus_Exclusive(systolic, diastolic) ==
    IF systolic > 180 \/ diastolic > 120 THEN "critical"
    ELSE IF systolic > 140 \/ diastolic > 90 THEN "high"
    ELSE IF systolic > 130 \/ diastolic > 80 THEN "elevated"
    ELSE "normal"

\* scripts/seed-data.ts, generateReadings: status of a seeded reading
generateReadingsStatus(systolic, diastolic) ==
    IF systolic >= 180 \/ diastolic >= 120 THEN "critical"
    ELSE IF systolic >= 140 \/ diastolic >= 90 THEN "high"
    ELSE IF systolic >= 130 \/ diastolic >= 80 THEN "elevated"
    ELSE "normal"

\* one call of each classifier on the probe's arguments
Classify ==
    /\ probe.status = "unclassified"
    /\ probe' = [probe EXCEPT
                    !.status = getReadingStatus(probe.systolic, probe.diastolic),
                    !.calculated = calculateReadingStatus(probe.systolic, probe.diastolic),
                    !.alias = BloodPressureGetReadingStatus(probe.systolic,
                                                            probe.diastolic),
                    !.mock = generateMockReadingsStatus(probe.systolic, probe.diastolic),
                    !.seed = generateReadingsStatus(probe.systolic, probe.diastolic)]
    /\ UNCHANGED <<conversations, selectedConversation, searchQuery,
                   isAdminConfigured, readings, alerts, now, last, response,
                   uiAlerts, statusFilter, pending, peerAlerts>>

-----------------------------------------------------------------------------
(* data/demoMessages.ts and the messages page.  A string that is searched is a
   sequence of its characters; of a conversation and a message the fields the
   page's list reads or writes are kept. *)

UpperToLower ==
    [A |-> "a", B |-> "b", C |-> "c", D |-> "d", E |-> "e", F |-> "f", 
     G |-> "g", H |-> "h", I |-> "i", J |-> "j", K |-> "k", L |-> "l", 
     M |-> "m", N |-> "n", O |-> "o", P |-> "p", Q |-> "q", R |-> "r", 
     S |-> "s", T |-> "t", U |-> "u", V |-> "v", W |-> "w", X |-> "x", 
     Y |-> "y", Z |-> "z"]

\* String.prototype.toLowerCase
toLowerCase(str) ==
    [i \in 1..Len(str) |->
        IF str[i] \in DOMAIN UpperToLower THEN UpperToLower[str[i]] ELSE str[i]]

RECURSIVE trimStart(_)
trimStart(str) ==
    IF str # <<>> /\ Head(str) = " " THEN trimStart(Tail(str)) ELSE str

RECURSIVE trimEnd(_)
trimEnd(str) ==
    IF str # <<>> /\ str[Len(str)] = " "
    THEN trimEnd(SubSeq(str, 1, Len(str) - 1))
    ELSE str

\* String.prototype.trim
trim(str) == trimEnd(trimStart(str))

\* String.prototype.includes
includes(str, searchString) ==
    \E i \in 0..(Len(str) - Len(searchString)) :
        SubSeq(str, i + 1, i + Len(searchString)) = searchString

demoConversations ==
    << [id |-> "conv-001",
        patient |-> [id |-> <<"P", "-", "2", "0", "2", "5", "-", "0", "0", "1">>,
                     name |-> <<"M", "a", "r", "i", "a", " ", "R", "o", "d", "r", "i", "g", "u", "e", "z">>],
        participant |-> [name |-> <<"M", "a", "r", "i", "a", " ", "R", "o", "d", "r", "i", "g", "u", "e", "z">>],
        unreadCount |-> 3,
        lastMessageAt |-> "2m",
        messages |-> << [id |-> "msg-001-1", isRead |-> FALSE],
                     [id |-> "msg-001-2", isRead |-> TRUE],
                     [id |-> "msg-001-3", isRead |-> FALSE],
                     [id |-> "msg-001-4", isRead |-> TRUE],
                     [id |-> "msg-001-5", isRead |-> FALSE] >>],
       [id |-> "conv-002",
        patient |-> [id |-> <<"P", "-", "2", "0", "2", "5", "-", "0", "0", "3">>,
                     name |-> <<"J", "a", "m", "e", "s", " ", "W", "i", "l", "s", "o", "n">>],
        participant |-> [name |-> <<"R", "o", "b", "e", "r", "t", " ", "W", "i", "l", "s", "o", "n">>],
        unreadCount |-> 0,
        lastMessageAt |-> "1h",
        messages |-> << [id |-> "msg-002-1", isRead |-> TRUE],
                     [id |-> "msg-002-2", isRead |-> TRUE],
                     [id |-> "msg-002-3", isRead |-> TRUE],
                     [id |-> "msg-002-4", isRead |-> TRUE] >>],
       [id |-> "conv-003",
        patient |-> [id |-> <<"P", "-", "2", "0", "2", "5", "-", "0", "0", "6">>,
                     name |-> <<"S", "a", "r", "a", "h", " ", "J", "o", "h", "n", "s", "o", "n">>],
        participant |-> [name |-> <<"S", "a", "r", "a", "h", " ", "J", "o", "h", "n", "s", "o", "n">>],
        unreadCount |-> 0,
        lastMessageAt |-> "3h",
        messages |-> << [id |-> "msg-003-1", isRead |-> TRUE],
                     [id |-> "msg-003-2", isRead |-> TRUE] >>],
       [id |-> "conv-004",
        patient |-> [id |-> <<"P", "-", "2", "0", "2", "5", "-", "0", "0", "8">>,
                     name |-> <<"M", "i", "c", "h", "a", "e", "l", " ", "C", "h", "e", "n">>],
        participant |-> [name |-> <<"M", "i", "c", "h", "a", "e", "l", " ", "C", "h", "e", "n">>],
        unreadCount |-> 1,
        lastMessageAt |-> "5h",
        messages |-> << [id |-> "msg-004-1", isRead |-> FALSE] >>],
       [id |-> "conv-005",
        patient |-> [id |-> <<"P", "-", "2", "0", "2", "5", "-", "0", "0", "4">>,
                     name |-> <<"L", "i", "n", "d", "a", " ", "M", "a", "r", "t", "i", "n", "e", "z">>],
        participant |-> [name |-> <<"L", "i", "n", "d", "a", " ", "M", "a", "r", "t", "i", "n", "e", "z">>],
        unreadCount |-> 0,
        lastMessageAt |-> "1d",
        messages |-> << [id |-> "msg-005-1", isRead |-> TRUE],
                     [id |-> "msg-005-2", isRead |-> TRUE] >>],
       [id |-> "conv-006",
        patient |-> [id |-> <<"P", "-", "2", "0", "2", "5", "-", "0", "0", "5">>,
                     name |-> <<"D", "a", "v", "i", "d", " ", "K", "i", "m">>],
        participant |-> [name |-> <<"S", "u", "s", "a", "n", " ", "K", "i", "m">>],
        unreadCount |-> 0,
        lastMessageAt |-> "2d",
        messages |-> << [id |-> "msg-006-1", isRead |-> TRUE],
                     [id |-> "msg-006-2", isRead |-> TRUE],
                     [id |-> "msg-006-3", isRead |-> TRUE] >>] >>

\* Array.prototype.filter with searchConversations' predicate
RECURSIVE FilterConversations(_, _)
FilterConversations(convs, lowerQuery) ==
    IF convs = <<>> THEN <<>>
    ELSE LET conv == Head(convs)
             rest == FilterConversations(Tail(convs), lowerQuery)
         IN IF \/ includes(toLowerCase(conv.patient.name), lowerQuery)
               \/ includes(toLowerCase(conv.patient.id), lowerQuery)
               \/ includes(toLowerCase(conv.participant.name), lowerQuery)
            THEN <<conv>> \o rest
            ELSE rest

\* searchConversations: search by patient name or id, over demoConversations
searchConversations(query) ==
    LET lowerQuery == trim(toLowerCase(query))
    IN IF lowerQuery = <<>> THEN demoConversations
       ELSE FilterConversations(demoConversations, lowerQuery)

\* the list the left panel renders
filteredConversations ==
    IF searchQuery # <<>> THEN searchConversations(searchQuery) ELSE conversations

\* messages.map(m => ({ ...m, isRead: true }))
MarkRead(messages) ==
    [i \in 1..Len(messages) |-> [messages[i] EXCEPT !.isRead = TRUE]]

\* a click on a row of the list, or the patientId parameter of the URL
handleSelectConversation(conv) ==
    /\ conversations' =
          [n \in 1..Len(conversations) |->
              IF conversations[n].id = conv.id
              THEN [conversations[n] EXCEPT
                       !.unreadCount = 0,
                       !.messages = MarkRead(conversations[n].messages)]
              ELSE conversations[n]]
    /\ selectedConversation' =
          << [conv EXCEPT !.unreadCount = 0, !.messages = MarkRead(conv.messages)] >>
    /\ last' = [op |-> "handleSelectConversation", via |-> "messages",
                id |-> conv.id]
    /\ UNCHANGED <<isAdminConfigured, readings, alerts, now, response, uiAlerts,
                   statusFilter, probe, pending, peerAlerts, searchQuery>>

\* the effect on the URL's patientId: select the first conversation of the patient
preselectConversation(patientId) ==
    /\ \E n \in 1..Len(conversations) : conversations[n].patient.id = patientId
    /\ LET n == CHOOSE k \in 1..Len(conversations) :
                   /\ conversations[k].patient.id = patientId
                   /\ \A j \in 1..(k - 1) : conversations[j].patient.id # patientId
       IN handleSelectConversation(conversations[n])

\* the messages of every conversation of the list, counted
RECURSIVE TotalMessages(_)
TotalMessages(convs) ==
    IF convs = <<>> THEN 0 ELSE Len(Head(convs).messages) + TotalMessages(Tail(convs))

\* the Send button: append the clinician's message to the selected conversation
handleSendMessage(messageInput) ==
    /\ trim(messageInput) # <<>>
    /\ selectedConversation # <<>>
    /\ TotalMessages(conversations) < TotalMessages(demoConversations) + MaxSent
    /\ \E t \in Clock :
          LET newMessage == [id |-> "msg-" \o NumberToString(t), isRead |-> TRUE]
              updatedConversation ==
                  [selectedConversation[1] EXCEPT
                      !.messages = Append(@, newMessage),
                      !.lastMessageAt = "Just now"]
          IN /\ now' = t
             /\ selectedConversation' = <<updatedConversation>>
             /\ conversations' =
                   [n \in 1..Len(conversations) |->
                       IF conversations[n].id = selectedConversation[1].id
                       THEN updatedConversation
                       ELSE conversations[n]]
    /\ last' = [op |-> "handleSendMessage", via |-> "messages"]
    /\ UNCHANGED <<isAdminConfigured, readings, alerts, response, uiAlerts,
                   statusFilter, probe, pending, peerAlerts, searchQuery>>

\* typing in the search box
setSearchQuery(value) ==
    /\ searchQuery' = value
    /\ last' = [op |-> "setSearchQuery", via |-> "messages"]
    /\ UNCHANGED <<isAdminConfigured, readings, alerts, now, response, uiAlerts,
                   statusFilter, probe, pending, peerAlerts, conversations,
                   selectedConversation>>

-----------------------------------------------------------------------------
(* The requests and events of the model *)

\* does a body pass the validation of either ingestion endpoint
PassesValidation(body) ==
    ValidationError(body) = Undefined \/ BloodPressureValidationError(body) = Undefined

\* a store call can only fail in a handler that reaches it
ReadingRequests(bodies) ==
    { <<body, fault>> \in bodies \X PostFaults :
        fault = "none" \/ PassesValidation(body) }

\* (systolic, diastolic) of the bodies submitted beside alert updates: one
\* pair per tier and one that fails validation
Vitals == { << <<185>>, <<110>> >>, << <<165>>, <<95>> >>,
            << <<135>>, <<85>> >>, << <<125>>, <<78>> >>,
            << Undefined, <<78>> >> }

ReadingBodies ==
    { ReadingBody(p, v[1], v[2], Undefined) :
        p \in { <<"P-1001">>, <<"P-404">> }, v \in Vitals }

\* the values either side of every limit of the validation and the classifier
SystolicEdges == { Undefined, <<0>>, <<59>>, <<60>>, <<129>>, <<130>>, <<139>>,
                   <<140>>, <<179>>, <<180>>, <<300>>, <<301>> }
DiastolicEdges == { Undefined, <<0>>, <<39>>, <<40>>, <<79>>, <<80>>, <<89>>,
                    <<90>>, <<119>>, <<120>>, <<200>>, <<201>> }

IngestVitals ==
    { << s, <<78>> >> : s \in SystolicEdges }
    \cup { << <<125>>, d >> : d \in DiastolicEdges }
    \cup { << <<185>>, <<110>> >>, << <<59>>, <<39>> >>, << <<301>>, <<201>> >>,
           << Undefined, Undefined >> }

IngestBodies ==
    { ReadingBody(p, v[1], v[2], src) :
        p \in { <<"P-1001">>, <<"P-2025-001">>, <<"P-404">> },
        v \in IngestVitals, src \in { Undefined } }
    \cup { ReadingBody(p, <<185>>, <<110>>, src) :
             p \in { Undefined, <<"">> }, src \in { Undefined, <<"manual">> } }
    \cup { ReadingBody(<<"P-1001">>, <<165>>, <<95>>, <<"manual">>) }

PatchBodies ==
    { PatchBody(a, s, r) :
        a \in { Undefined } \cup { <<AlertDocId(n)>> : n \in 1..(MaxReadings + 1) },
        s \in { Undefined, <<"new">>, <<"acknowledged">>, <<"resolved">>,
                <<"dismissed">> },
        r \in { Undefined, <<"">>, <<"Issue addressed by clinician">> } }

\* the updates another client sends while the page is open
OtherClientBodies ==
    { PatchBody(<<AlertDocId(n)>>, s, Undefined) :
        n \in 1..MaxReadings, s \in { <<"acknowledged">>, <<"resolved">> } }

PageReadingBodies == { ReadingBody(<<"P-1001">>, <<185>>, <<110>>, Undefined) }

StatusFilters == {"all", "new", "acknowledged", "resolved"}

NoProbe == [systolic |-> 0, diastolic |-> 0, status |-> "unclassified",
            calculated |-> "unclassified", alias |-> "unclassified",
            mock |-> "unclassified", seed |-> "unclassified"]

Init ==
    /\ isAdminConfigured \in BOOLEAN
    /\ readings = <<>>
    /\ alerts = <<>>
    /\ now = 0
    /\ last = [op |-> "start", via |-> "none"]
    /\ response = [status |-> 0]
    /\ uiAlerts = <<>>
    /\ statusFilter = "all"
    /\ probe = NoProbe
    /\ pending = [s \in Slots |-> Idle]
    /\ peerAlerts = <<>>
    /\ conversations = demoConversations
    /\ selectedConversation = <<>>
    /\ searchQuery = <<>>

\* the API: reading submissions and alert updates from any client
Next ==
    \/ \E r \in ReadingRequests(ReadingBodies) :
          Len(readings) < MaxReadings /\ POST(r[1], r[2])
    \/ \E body \in PatchBodies, fault \in PatchFaults : PATCH(body, fault)

Spec == Init /\ [][Next]_vars

\* reading ingestion alone, over the edge values
NextIngest ==
    \/ \E r \in ReadingRequests(IngestBodies) :
          Len(readings) < MaxReadings /\ POST(r[1], r[2])
    \/ \E r \in ReadingRequests(IngestBodies) :
          Len(readings) < MaxReadings /\ POSTBloodPressure(r[1], r[2])

SpecIngest == Init /\ [][NextIngest]_vars

\* the clinician's alert page, beside submissions and another client's updates
NextPage ==
    \/ \E body \in PageReadingBodies :
          Len(readings) < MaxReadings /\ POST(body, "none")
    \/ \E body \in OtherClientBodies : PATCH(body, "none")
    \/ \E fault \in GetFaults : fetchAlerts(fault)
    \/ \E n \in 1..Len(uiAlerts), fault \in PatchFaults : acknowledgeAlert(n, fault)
    \/ \E n \in 1..Len(uiAlerts), fault \in PatchFaults : resolveAlert(n, fault)
    \/ \E n \in 1..Len(uiAlerts) : handleCall(n)
    \/ \E n \in 1..Len(uiAlerts) : handleMessage(n)
    \/ \E f \in StatusFilters : setStatusFilter(f)

SpecPage == Init /\ [][NextPage]_vars

\* the classifiers alone, over every pair of arguments around their limits
ProbeSystolic == (0 - MaxProbe)..(300 + MaxProbe)
ProbeDiastolic == (0 - MaxProbe)..(200 + MaxProbe)

InitClassify ==
    /\ isAdminConfigured = TRUE
    /\ readings = <<>>
    /\ alerts = <<>>
    /\ now = 0
    /\ last = [op |-> "start", via |-> "none"]
    /\ response = [status |-> 0]
    /\ uiAlerts = <<>>
    /\ statusFilter = "all"
    /\ \E s \in ProbeSystolic, d \in ProbeDiastolic :
          probe = [NoProbe EXCEPT !.systolic = s, !.diastolic = d]
    /\ pending = [s \in Slots |-> Idle]
    /\ peerAlerts = <<>>
    /\ conversations = demoConversations
    /\ selectedConversation = <<>>
    /\ searchQuery = <<>>

SpecClassify == InitClassify /\ [][Classify]_vars

\* the submissions made while others are in flight: one body per tier that
\* alerts, one that does not, one that fails validation, and for a second
\* patient one whose diastolic alone raises the tier
PipelineBodies ==
    { ReadingBody(<<"P-1001">>, v[1], v[2], Undefined) :
        v \in { << <<185>>, <<110>> >>, << <<165>>, <<95>> >>,
                << <<125>>, <<78>> >>, << <<301>>, <<78>> >> } }
    \cup { ReadingBody(<<"P-404">>, <<125>>, <<95>>, Undefined) }

\* the alert updates sent while submissions are in flight
PipelinePatchBodies ==
    { PatchBody(<<AlertDocId(n)>>, s, Undefined) :
        n \in 1..MaxSubmissions, s \in { <<"acknowledged">>, <<"resolved">> } }
    \cup { PatchBody(Undefined, <<"resolved">>, Undefined),
           PatchBody(<<AlertDocId(1)>>, Undefined, Undefined) }

\* reading submissions that interleave at their awaits, beside alert updates
NextPipeline ==
    \/ \E s \in Slots, endpoint \in Endpoints, r \in ReadingRequests(PipelineBodies) :
          PostSaveReading(s, endpoint, r[1], r[2])
    \/ \E s \in Slots : PostCreateAlert(s)
    \/ \E body \in PipelinePatchBodies : PATCH(body, "none")

SpecPipeline == Init /\ [][NextPipeline]_vars

\* the submissions that fill the alerts collection for the alert query
QueryBodies ==
    { ReadingBody(<<"P-1001">>, v[1], v[2], Undefined) :
        v \in { << <<185>>, <<110>> >>, << <<165>>, <<95>> >> } }

\* the query parameters of the model: absent, empty, or a value
QueryStatuses == { Undefined, <<"">>, <<"new">>, <<"resolved">> }
QuerySeverities == { Undefined, <<"critical">> }

\* the alert query, beside the submissions and updates that fill the collection
NextQuery ==
    \/ \E s \in Slots, body \in QueryBodies :
          PostSaveReading(s, "/api/readings", body, "none")
    \/ \E s \in Slots : PostCreateAlert(s)
    \/ \E body \in PipelinePatchBodies : PATCH(body, "none")
    \/ \E status \in QueryStatuses, severity \in QuerySeverities, fault \in GetFaults :
          GET(status, severity, fault)

SpecQuery == Init /\ [][NextQuery]_vars

\* every stored alert is new, and there is one: the moment both sessions load
AllAlertsNew ==
    /\ alerts # <<>>
    /\ \A n \in 1..Len(alerts) : alerts[n].status = "new"

\* two clinician sessions that load the list while the alert is new and then
\* use their Acknowledge and Resolve buttons
NextSessions ==
    \/ \E body \in PageReadingBodies :
          Len(readings) < MaxReadings /\ POST(body, "none")
    \/ AllAlertsNew /\ uiAlerts = <<>> /\ fetchAlerts("none")
    \/ AllAlertsNew /\ peerAlerts = <<>> /\ peerFetchAlerts("none")
    \/ \E n \in 1..Len(uiAlerts), fault \in PatchFaults : acknowledgeAlert(n, fault)
    \/ \E n \in 1..Len(uiAlerts), fault \in PatchFaults : resolveAlert(n, fault)
    \/ \E n \in 1..Len(peerAlerts), fault \in PatchFaults :
          peerAcknowledgeAlert(n, fault)
    \/ \E n \in 1..Len(peerAlerts), fault \in PatchFaults : peerResolveAlert(n, fault)

SpecSessions == Init /\ [][NextSessions]_vars

\* what is typed in the search box: nothing, a blank, a name in either case
SearchQueries == { <<>>, <<" ">>, <<"m", "a", "r", "i", "a">>, <<"C", "h", "e", "n", " ">>, <<"z", "z", "z">> }

\* what is typed in the composer
MessageInputs == { <<>>, <<" ">>, <<"o", "k">> }

\* the patientId parameters of the links to the messages page
PatientIdParams == { <<"P", "-", "2", "0", "2", "5", "-", "0", "0", "1">>, <<"P", "-", "2", "0", "2", "5", "-", "9", "9", "9">> }

\* the messages page alone
NextMessages ==
    \/ \E value \in SearchQueries : setSearchQuery(value)
    \/ \E i \in 1..Len(filteredConversations) :
          handleSelectConversation(filteredConversations[i])
    \/ \E patientId \in PatientIdParams : preselectConversation(patientId)
    \/ \E messageInput \in MessageInputs : handleSendMessage(messageInput)

SpecMessages == Init /\ [][NextMessages]_vars

-----------------------------------------------------------------------------
(* Properties *)

Lifecycle == {"new", "acknowledged", "resolved"}
ForwardMoves == { <<"new", "acknowledged">>, <<"acknowledged", "resolved">>,
                  <<"new", "resolved">> }

\* the step is an alert update request on a stored alert; n is its position
UpdatesAlert(n) ==
    /\ last'.op = "PATCH"
    /\ isAdminConfigured
    /\ ~FalsyString(Get(last'.body, "alertId"))
    /\ ~FalsyString(Get(last'.body, "status"))
    /\ n \in 1..Len(alerts)
    /\ AlertDocId(n) = last'.body.alertId

\* the failure responses PATCH gives for a missing field, a failed store call
\* and a missing configuration
OtherUpdateFailures ==
    { [status |-> 400, error |-> "alertId and status are required"],
      [status |-> 500, error |-> "Failed to update alert"],
      [status |-> 503, error |-> "Firebase not configured"] }

\* a failure response the caller can tell from every other kind of failure
DistinctFailure(resp) == ~Ok(resp) /\ resp \notin OtherUpdateFailures

\* C1: across any update request an alert's status among new, acknowledged and
\* resolved stays or moves forward: new -> acknowledged, acknowledged ->
\* resolved or new -> resolved; it never moves backward.
C1_StatusNeverMovesBackward ==
    [][\A n \in 1..Len(alerts) :
          (alerts[n].status \in Lifecycle /\ alerts'[n].status \in Lifecycle)
          => \/ alerts'[n].status = alerts[n].status
             \/ <<alerts[n].status, alerts'[n].status>> \in ForwardMoves]_vars

\* C2: an acknowledge or resolve request on a resolved alert is answered with
\* an invalid-transition failure and leaves every alert as it was.
C2_ResolvedRejectsUpdates ==
    [][\A n \in 1..Len(alerts) :
          (/\ UpdatesAlert(n)
           /\ alerts[n].status = "resolved"
           /\ last'.body.status \in {"acknowledged", "resolved"})
          => (DistinctFailure(response') /\ alerts' = alerts)]_vars

\* C3: once an alert has an acknowledgedAt it keeps that value, and once it has
\* a resolvedAt it keeps that value, whatever request follows.
C3_TimestampsKeptOnceSet ==
    [][\A n \in 1..Len(alerts) :
          /\ Has(alerts[n], "acknowledgedAt")
             => /\ Has(alerts'[n], "acknowledgedAt")
                /\ alerts'[n].acknowledgedAt = alerts[n].acknowledgedAt
          /\ Has(alerts[n], "resolvedAt")
             => /\ Has(alerts'[n], "resolvedAt")
                /\ alerts'[n].resolvedAt = alerts[n].resolvedAt]_vars

IngestOps == {"POST", "POST /api/blood-pressure"}

\* a body with a patient reference, systolic in 60..300 and diastolic in 40..200
InRanges(body) ==
    /\ Has(body, "patientId") /\ body.patientId # ""
    /\ Has(body, "systolic") /\ body.systolic \in 60..300
    /\ Has(body, "diastolic") /\ body.diastolic \in 40..200

\* the reading a 201 response of either ingestion endpoint carries
ReadingOf(resp) == IF Has(resp, "reading") THEN resp.reading ELSE resp.body

\* the step is a reading submission answered 201
Accepted == last'.op \in IngestOps /\ response'.status = 201

\* the alerts of a collection that reference a reading id
Referencing(coll, readingId) ==
    { n \in 1..Len(coll) : coll[n].relatedReadingId = readingId }

\* the step appends exactly one alert, which references the accepted reading
CreatesOneAlert ==
    /\ Len(alerts') = Len(alerts) + 1
    /\ SubSeq(alerts', 1, Len(alerts)) = alerts
    /\ Referencing(alerts', ReadingOf(response').id) = {Len(alerts')}

\* C4 as claimed, on a configured store: every accepted submission creates
\* exactly one alert for its reading when its tier is critical or high, and
\* none otherwise.
C4_ExactlyOneAlertPerHighReading ==
    [][(Accepted /\ isAdminConfigured) =>
          IF ReadingOf(response').status \in {"critical", "high"}
          THEN CreatesOneAlert
          ELSE alerts' = alerts]_vars

\* C4 as amended: an accepted submission creates no alert when its tier is
\* elevated or normal; when its tier is critical or high it creates exactly one
\* alert for its reading if the store is configured and the patient lookup and
\* the alert write succeed, and none otherwise.
C4_OneAlertWhenAlertingSucceeds ==
    [][Accepted =>
          IF /\ ReadingOf(response').status \in {"critical", "high"}
             /\ isAdminConfigured
             /\ last'.fault = "none"
          THEN CreatesOneAlert
          ELSE alerts' = alerts]_vars

C4_Witness ==
    /\ last.op = "POST"
    /\ response.status = 201
    /\ response.body.status = "high"
    /\ Len(alerts) = 1
    /\ alerts[1].relatedReadingId = response.body.id

\* C5: when the patient lookup or the alert write fails after the reading was
\* written, the reading stays in the collection and the submission is answered
\* 201 with that reading; no alert is written.
C5_AlertFailureSwallowed ==
    [][(/\ last'.op \in IngestOps
        /\ isAdminConfigured
        /\ InRanges(last'.body)
        /\ getReadingStatus(last'.body.systolic, last'.body.diastolic)
              \in {"critical", "high"}
        /\ last'.fault \in {"patients.get", "alerts.add"})
       => /\ response'.status = 201
          /\ Len(readings') = Len(readings) + 1
          /\ SubSeq(readings', 1, Len(readings)) = readings
          /\ ReadingOf(response') =
                [id |-> ReadingDocId(Len(readings'))] @@ readings'[Len(readings')]
          /\ alerts' = alerts]_vars

C5_Witness ==
    /\ last.op = "POST"
    /\ last.fault = "alerts.add"
    /\ response.status = 201
    /\ response.body.status = "critical"
    /\ Len(readings) = 1
    /\ alerts = <<>>

\* C6: each classifier returns critical when systolic >= 180 or diastolic >= 120,
\* else high when systolic >= 140 or diastolic >= 90, else elevated when
\* systolic >= 130 or diastolic >= 80, else normal; the named pairs get the
\* named tiers.
C6_ClassifierContract ==
    probe.status # "unclassified" =>
        LET s == probe.systolic
            d == probe.diastolic
            critical == s >= 180 \/ d >= 120
            high == ~critical /\ (s >= 140 \/ d >= 90)
            elevated == ~critical /\ ~high /\ (s >= 130 \/ d >= 80)
        IN /\ \A tier \in {probe.status, probe.calculated} :
                /\ tier = "critical" <=> critical
                /\ tier = "high" <=> high
                /\ tier = "elevated" <=> elevated
                /\ tier = "normal" <=> ~(critical \/ high \/ elevated)
           /\ <<s, d>> = <<180, 0>> => probe.status = "critical"
           /\ <<s, d>> = <<179, 119>> => probe.status = "high"
           /\ <<s, d>> = <<140, 89>> => probe.status = "high"
           /\ <<s, d>> = <<139, 79>> => probe.status = "elevated"
           /\ <<s, d>> = <<130, 80>> => probe.status = "elevated"
           /\ <<s, d>> = <<129, 79>> => probe.status = "normal"

C6_Witness ==
    /\ probe.systolic = 179
    /\ probe.diastolic = 119
    /\ probe.status = "high"
    /\ probe.calculated = "high"

\* C7: the alert a submission creates has type critical-bp and severity critical
\* for a critical reading, type high-bp and severity warning for a high one,
\* status new, triggerValue "<systolic>/<diastolic>", and the id and the
\* patient reference of the reading the submission stored.
C7_CreatedAlertFields ==
    [][Len(alerts') > Len(alerts) =>
          LET a == alerts'[Len(alerts')]
              r == readings'[Len(readings')]
          IN /\ Len(alerts') = Len(alerts) + 1
             /\ Len(readings') = Len(readings) + 1
             /\ r.status \in {"critical", "high"}
             /\ r.status = "critical" => (a.type = "critical-bp" /\ a.severity = "critical")
             /\ r.status = "high" => (a.type = "high-bp" /\ a.severity = "warning")
             /\ a.status = "new"
             /\ a.triggerValue = ToString(r.systolic) \o "/" \o ToString(r.diastolic)
             /\ (r.systolic = 185 /\ r.diastolic = 110) => a.triggerValue = "185/110"
             /\ a.relatedReadingId = ReadingDocId(Len(readings'))
             /\ a.relatedReadingId = ReadingOf(response').id
             /\ a.patientId = r.patientId]_vars

C7_Witness ==
    /\ Len(alerts) = 1
    /\ Len(readings) = 1
    /\ readings[1].systolic = 185
    /\ readings[1].diastolic = 110
    /\ readings[1].patientId = "P-1001"
    /\ alerts[1].type = "critical-bp"
    /\ alerts[1].severity = "critical"
    /\ alerts[1].status = "new"
    /\ alerts[1].triggerValue = "185/110"
    /\ alerts[1].relatedReadingId = "reading-1"
    /\ alerts[1].patientId = "P-1001"

\* C8: a submission without a patient reference, systolic or diastolic, or with
\* systolic outside 60..300 or diastolic outside 40..200, is answered 400 and
\* stores neither a reading nor an alert; every other submission passes
\* validation.
C8_ValidationRejectsOutOfRange ==
    [][last'.op \in IngestOps =>
          IF InRanges(last'.body)
          THEN response'.status # 400
          ELSE /\ response'.status = 400
               /\ readings' = readings
               /\ alerts' = alerts]_vars

C8_Witness ==
    /\ last.op = "POST"
    /\ Has(last.body, "systolic")
    /\ last.body.systolic = 301
    /\ response = [status |-> 400, error |-> "Invalid systolic value"]
    /\ readings = <<>>
    /\ alerts = <<>>

\* C9: an update request naming an alert id that is not stored is answered with
\* a failure the caller can tell from the other kinds of failure, and leaves
\* every alert as it was.
C9_UnknownAlertIsNotFound ==
    [][(/\ last'.op = "PATCH"
        /\ isAdminConfigured
        /\ ~FalsyString(Get(last'.body, "alertId"))
        /\ ~FalsyString(Get(last'.body, "status"))
        /\ last'.fault = "none"
        /\ AlertIndex(last'.body.alertId) = 0)
       => (DistinctFailure(response') /\ alerts' = alerts)]_vars

\* C10: the Call and Message buttons change neither an alert of the page's
\* list nor a stored alert.
C10_SecondaryActionsChangeNoAlert ==
    [][last'.op \in {"handleCall", "handleMessage"} =>
          (uiAlerts' = uiAlerts /\ alerts' = alerts)]_vars

C10_Witness ==
    /\ last.op = "handleCall"
    /\ Len(alerts) = 1
    /\ alerts[1].status = "new"
    /\ Len(uiAlerts) = 1
    /\ uiAlerts[1].status = "new"
    /\ last.alertId = uiAlerts[1].id

\* the step is an alert update request on the stored alert n that reaches the
\* store and whose store call succeeds
AppliesUpdate(n, target) ==
    /\ UpdatesAlert(n)
    /\ last'.body.status = target
    /\ last'.fault = "none"

ResolutionFields == {"resolvedAt", "resolvedBy", "resolution"}

\* C11: every stored alert's status is new, acknowledged or resolved, and an
\* update request whose target status is neither acknowledged nor resolved
\* leaves the status of the alert it names as it was.
C11_StatusStaysInLifecycle ==
    [][/\ \A n \in 1..Len(alerts') : alerts'[n].status \in Lifecycle
       /\ \A n \in 1..Len(alerts) :
             (UpdatesAlert(n) /\ last'.body.status \notin {"acknowledged", "resolved"})
             => alerts'[n].status = alerts[n].status]_vars

\* C12: an acknowledge request on a new alert is answered 200, sets the status
\* to acknowledged and acknowledgedAt to the current time, and writes none of
\* resolvedAt, resolvedBy and resolution, whether or not the request carries a
\* resolution text: a field that was absent is absent afterwards.
C12_AcknowledgeNewAlert ==
    [][\A n \in 1..Len(alerts) :
          (AppliesUpdate(n, "acknowledged") /\ alerts[n].status = "new")
          => /\ response' = [status |-> 200, success |-> TRUE]
             /\ alerts'[n].status = "acknowledged"
             /\ Has(alerts'[n], "acknowledgedAt")
             /\ alerts'[n].acknowledgedAt = now'
             /\ \A f \in ResolutionFields : Get(alerts'[n], f) = Get(alerts[n], f)]_vars

C12_Witness ==
    /\ last.op = "PATCH"
    /\ last.body = PatchBody(<<"alert-1">>, <<"acknowledged">>,
                             <<"Issue addressed by clinician">>)
    /\ response.status = 200
    /\ Len(alerts) = 1
    /\ alerts[1].status = "acknowledged"
    /\ alerts[1].acknowledgedAt = now
    /\ \A f \in ResolutionFields : ~Has(alerts[1], f)

\* a resolution text is supplied when the request carries a non-empty one
ResolutionSupplied(body) == ~FalsyString(Get(body, "resolution"))

C14_ReacknowledgeIsNoOp ==
    [][\A n \in 1..Len(alerts) :
          (AppliesUpdate(n, "acknowledged") /\ alerts[n].status = "acknowledged")
          => (Ok(response') /\ alerts'[n] = alerts[n])]_vars

\* the request of slot s has finished, stored a reading, and the reading's
\* tier is critical or high
Qualifies(s) ==
    /\ pending[s].pc = "done"
    /\ pending[s].reading # <<>>
    /\ isAdminConfigured
    /\ pending[s].reading[1].status \in {"critical", "high"}

\* C15 as claimed: every finished submission whose stored reading is critical
\* or high has exactly one alert of its own, and no two alerts share a reading.
C15_EveryQualifyingReadingHasItsAlert ==
    /\ \A s \in Slots :
          Qualifies(s) =>
             Cardinality(Referencing(alerts, pending[s].reading[1].id)) = 1
    /\ \A m, n \in 1..Len(alerts) :
          m # n => alerts[m].relatedReadingId # alerts[n].relatedReadingId

\* C15 as amended: there is no deduplication.  Every finished submission whose
\* stored reading is critical or high has exactly one alert of its own when
\* its patient lookup and alert write succeeded, and none when either failed,
\* whatever alerts the patient already has and however the submissions
\* interleave; no two alerts share a reading.
C15_NoDeduplication ==
    /\ \A s \in Slots :
          Qualifies(s) =>
             Cardinality(Referencing(alerts, pending[s].reading[1].id))
                = IF pending[s].fault = "none" THEN 1 ELSE 0
    /\ \A m, n \in 1..Len(alerts) :
          m # n => alerts[m].relatedReadingId # alerts[n].relatedReadingId

C15_Witness ==
    /\ pending[1].pc = "done" /\ pending[2].pc = "done"
    /\ pending[1].fault = "none" /\ pending[2].fault = "none"
    /\ Len(readings) = 2
    /\ readings[1].patientId = "P-1001" /\ readings[2].patientId = "P-1001"
    /\ Len(alerts) = 2
    /\ alerts[1].relatedReadingId = "reading-2"
    /\ alerts[2].relatedReadingId = "reading-1"
    /\ alerts[1].status = "new" /\ alerts[2].status = "new"

\* how many entries of a request's log name a collection
Count(log, name) == Cardinality({ i \in DOMAIN log : log[i] = name })

\* C16: no step of a submission adds more than one reading or more than one
\* alert, and over all its steps a submission writes at most one reading and
\* at most one alert, whatever its body and whichever store call fails.
C16_AtMostOneReadingAndAlert ==
    [][/\ Len(readings') <= Len(readings) + 1
       /\ Len(alerts') <= Len(alerts) + 1
       /\ \A s \in Slots : /\ Count(pending'[s].wrote, "readings") <= 1
                           /\ Count(pending'[s].wrote, "alerts") <= 1]_vars

C16_Witness ==
    \E s, r \in Slots :
        /\ pending[s].pc = "done"
        /\ pending[s].wrote = <<"readings", "alerts">>
        /\ pending[r].pc = "done"
        /\ pending[r].fault = "alerts.add"
        /\ pending[r].wrote = <<"readings">>
        /\ Len(readings) = 2
        /\ Len(alerts) = 1

\* the display name the claim expects for each patient reference of the model:
\* P-1001 has a stored profile, P-2025-001 a built-in demo name, P-404 neither
ExpectedPatientName(patientId, fault) ==
    IF fault = "patients.get" THEN "Unknown Patient"
    ELSE IF patientId = "P-1001" THEN "Ana Silva"
    ELSE IF patientId = "P-2025-001" THEN "Maria Rodriguez"
    ELSE "Unknown Patient"

C18_ReadingCommitsBeforeAlert ==
    [][/\ \A n \in 1..Len(alerts') :
             \E i \in 1..Len(readings') :
                 ReadingDocId(i) = alerts'[n].relatedReadingId
       /\ \A s \in Slots :
             pending'[s].wrote \in {<<>>, <<"readings">>, <<"readings", "alerts">>}
       /\ last'.op = "POST: createAlertForReading"
          => \E i \in 1..Len(readings) :
                 ReadingDocId(i) = pending[last'.slot].reading[1].id
       /\ (last'.op = "POST: readingsRef.add" /\ last'.fault = "readings.add")
          => /\ alerts' = alerts
             /\ readings' = readings
             /\ pending'[last'.slot].pc = "done"
             /\ pending'[last'.slot].wrote = <<>>]_vars

C18_Witness ==
    \E s, r \in Slots :
        /\ pending[s].pc = "done"
        /\ pending[s].fault = "readings.add"
        /\ pending[s].response[1].status = 500
        /\ pending[s].wrote = <<>>
        /\ pending[r].wrote = <<"readings", "alerts">>
        /\ Len(readings) = 1
        /\ Len(alerts) = 1
        /\ alerts[1].relatedReadingId = "reading-1"

\* C19: across every step, a submission's or an alert update's, each stored
\* reading is still stored with the field values it had.
C19_ReadingsImmutable ==
    [][/\ Len(readings') >= Len(readings)
       /\ \A i \in 1..Len(readings) : readings'[i] = readings[i]]_vars

C19_Witness ==
    /\ Len(readings) = 2
    /\ readings[1].systolic = 185
    /\ readings[1].timestamp = 0
    /\ readings[2].systolic = 165
    /\ Len(alerts) = 2
    /\ alerts[1].status = "resolved"
    /\ last.op = "PATCH"
    /\ response.status = 200

\* C20: no step removes an alert, and a step adds one only when it is the
\* alert creation of a submission whose stored reading is critical or high;
\* an alert update request adds none.
C20_AlertsGrowOnlyByIngestion ==
    [][/\ Len(alerts') >= Len(alerts)
       /\ \A n \in 1..Len(alerts) :
             /\ alerts'[n].relatedReadingId = alerts[n].relatedReadingId
             /\ alerts'[n].createdAt = alerts[n].createdAt
       /\ Len(alerts') > Len(alerts)
          => /\ last'.op = "POST: createAlertForReading"
             /\ pending[last'.slot].reading[1].status \in {"critical", "high"}
             /\ alerts'[Len(alerts')].relatedReadingId
                   = pending[last'.slot].reading[1].id
       /\ last'.op = "PATCH" => Len(alerts') = Len(alerts)]_vars

C20_Witness ==
    /\ last.op = "PATCH"
    /\ Has(last.body, "alertId")
    /\ last.body.alertId = "alert-2"
    /\ response.status = 500
    /\ Len(alerts) = 1
    /\ Len(readings) = 2

\* the alerts the query reads: the stored ones, or the demo alerts when the
\* store is not configured
Queried(t) == IF isAdminConfigured THEN AlertsWithIds ELSE generateDemoAlerts(t)

\* does an alert pass a filter parameter on field f (an empty value is none)
PassesFilter(alert, f, param) == FalsyString(param) \/ alert[f] = param[1]

ClassifiedReadings ==
    { readings[i] : i \in 1..Len(readings) }
    \cup { [f \in DOMAIN pending[s].response[1].body \ {"id"} |->
              pending[s].response[1].body[f]] :
             s \in { r \in Slots : /\ pending[r].response # <<>>
                                   /\ pending[r].response[1].status = 201
                                   /\ pending[r].endpoint = "/api/readings" } }

\* C22: two classifications of the same (systolic, diastolic) pair give the
\* same tier, whatever readings and alerts were stored and whatever the time
\* was when each was made.
C22_ClassificationDeterministic ==
    \A a, b \in ClassifiedReadings :
        (a.systolic = b.systolic /\ a.diastolic = b.diastolic)
        => a.status = b.status

C22_Witness ==
    /\ Len(readings) = 2
    /\ readings[1].systolic = 165 /\ readings[1].diastolic = 95
    /\ readings[2].systolic = 165 /\ readings[2].diastolic = 95
    /\ readings[1].timestamp = 0
    /\ readings[2].timestamp = 1
    /\ Len(alerts) = 2
    /\ alerts[1].createdAt = 0
    /\ alerts[1].status = "acknowledged"
    /\ readings[1].status = "high"
    /\ readings[2].status = "high"

\* C23: with two sessions that loaded the list while the alert was new, no
\* Acknowledge or Resolve click of either takes a stored alert from resolved
\* to another status or replaces its resolvedAt.
C23_SessionsKeepResolved ==
    [][\A n \in 1..Len(alerts) :
          alerts[n].status = "resolved"
          => /\ alerts'[n].status = "resolved"
             /\ alerts'[n].resolvedAt = alerts[n].resolvedAt]_vars

\* C24: every stored alert has resolvedAt and resolvedBy exactly when its status
\* is resolved, has acknowledgedAt when its status is acknowledged, and has
\* neither acknowledgedAt nor resolvedAt when its status is new.
C24_TimestampsAgreeWithStatus ==
    \A n \in 1..Len(alerts) :
        /\ Has(alerts[n], "resolvedAt") <=> alerts[n].status = "resolved"
        /\ Has(alerts[n], "resolvedBy") <=> alerts[n].status = "resolved"
        /\ alerts[n].status = "acknowledged" => Has(alerts[n], "acknowledgedAt")
        /\ alerts[n].status = "new"
           => (~Has(alerts[n], "acknowledgedAt") /\ ~Has(alerts[n], "resolvedAt"))

\* the fields an alert update may write, and those it must leave alone
UpdateFields == {"status", "acknowledgedAt", "resolvedAt", "resolvedBy", "resolution"}
FrameFields == {"patientId", "patientName", "type", "severity", "title",
                "description", "relatedReadingId", "triggerValue", "createdAt"}

\* C25: an alert update request adds and removes no alert and no reading; in
\* the alert it names it changes no field outside status, acknowledgedAt,
\* resolvedAt, resolvedBy and resolution; it changes no other alert; and a
\* request without alertId or without status changes no alert at all.
C25_UpdateFrame ==
    [][last'.op = "PATCH"
       => /\ Len(alerts') = Len(alerts)
          /\ readings' = readings
          /\ \A n \in 1..Len(alerts) :
                IF UpdatesAlert(n)
                THEN /\ \A f \in FrameFields : Get(alerts'[n], f) = Get(alerts[n], f)
                     /\ DOMAIN alerts'[n] \subseteq (DOMAIN alerts[n] \cup UpdateFields)
                     /\ DOMAIN alerts[n] \subseteq DOMAIN alerts'[n]
                ELSE alerts'[n] = alerts[n]
          /\ (\/ FalsyString(Get(last'.body, "alertId"))
              \/ FalsyString(Get(last'.body, "status")))
             => alerts' = alerts]_vars

C25_Witness ==
    /\ last.op = "PATCH"
    /\ last.body = PatchBody(<<"alert-2">>, <<"resolved">>, Undefined)
    /\ response.status = 200
    /\ Len(alerts) = 2
    /\ alerts[1].status = "new"
    /\ alerts[2].status = "resolved"
    /\ alerts[2].patientName = "Ana Silva"
    /\ alerts[2].relatedReadingId \in {"reading-1", "reading-2"}
    /\ Has(alerts[2], "triggerValue")
    /\ Has(alerts[2], "createdAt")

\* the tier of a pair by the thresholds of the classifier
TierOf(systolic, diastolic) ==
    CASE systolic >= 180 \/ diastolic >= 120 -> "critical"
      [] systolic < 180 /\ diastolic < 120 /\ (systolic >= 140 \/ diastolic >= 90)
           -> "high"
      [] systolic < 140 /\ diastolic < 90 /\ (systolic >= 130 \/ diastolic >= 80)
           -> "elevated"
      [] systolic < 130 /\ diastolic < 80 -> "normal"

\* C26: in every state every stored reading's status is the tier of its own
\* stored systolic and diastolic, whatever submissions and alert updates
\* followed its creation.
C26_ReadingStatusIsClassifierResult ==
    \A i \in 1..Len(readings) :
        readings[i].status = TierOf(readings[i].systolic, readings[i].diastolic)

C26_Witness ==
    /\ Len(readings) = 2
    /\ readings[1].systolic = 125 /\ readings[1].diastolic = 95
    /\ readings[1].status = "high"
    /\ readings[2].systolic = 185 /\ readings[2].status = "critical"
    /\ Len(alerts) = 2
    /\ alerts[1].status = "resolved"
    /\ last.op = "PATCH"

\* C27: for every body, store failure and clock reading, the two ingestion
\* endpoints answer from the same state with the same status code, leave the
\* same readings and the same alerts, and on acceptance return the same
\* reading; the step taken is the one both compute.
C27_EndpointsEquivalent ==
    [][last'.op \in IngestOps
       => LET main == PostReadingsOutcome(last'.body, last'.fault, now')
              alias == PostBloodPressureOutcome(last'.body, last'.fault, now')
          IN /\ main.response.status = alias.response.status
             /\ main.readings = alias.readings
             /\ main.alerts = alias.alerts
             /\ main.response.status = 201
                => ReadingOf(main.response) = ReadingOf(alias.response)
             /\ readings' = main.readings
             /\ alerts' = main.alerts
             /\ response'.status = main.response.status]_vars

C27_Witness ==
    /\ last.op = "POST /api/blood-pressure"
    /\ Has(last.body, "systolic")
    /\ last.body.systolic = 0
    /\ response = [status |-> 400,
                   error |-> "Invalid systolic value (must be 60-300)"]
    /\ readings = <<>>
    /\ alerts = <<>>

\* C28: for every pair, getReadingStatus of both ingestion routes,
\* calculateReadingStatus and the inline rules of the mock and the seeded
\* readings return the same tier.
C28_ClassifierCopiesAgree ==
    probe.status # "unclassified"
    => /\ probe.calculated = probe.status
       /\ probe.alias = probe.status
       /\ probe.mock = probe.status
       /\ probe.seed = probe.status

C28_Witness ==
    /\ probe.systolic = 140
    /\ probe.diastolic = 89
    /\ probe.status = "high"
    /\ probe.calculated = "high"
    /\ probe.alias = "high"
    /\ probe.mock = "high"
    /\ probe.seed = "high"

\* C29: a step of the alert page's Acknowledge or Resolve button whose request
\* is not answered OK leaves the local list as it was; one answered OK changes
\* only the local entries of that alert, and their local status is then the
\* status of the stored alert; no other step but a reload changes the list.
C29_LocalStatusFollowsServer ==
    [][IF last'.op = "PATCH" /\ last'.via = "page"
       THEN IF Ok(response')
            THEN /\ AlertIndex(last'.body.alertId) # 0
                 /\ Len(uiAlerts') = Len(uiAlerts)
                 /\ \A n \in 1..Len(uiAlerts) :
                       IF uiAlerts[n].id = last'.body.alertId
                       THEN uiAlerts'[n].status
                               = alerts'[AlertIndex(last'.body.alertId)].status
                       ELSE uiAlerts'[n] = uiAlerts[n]
            ELSE uiAlerts' = uiAlerts
       ELSE (last'.op = "GET" /\ last'.via = "page") \/ uiAlerts' = uiAlerts]_vars

C29_Witness ==
    /\ last.op = "PATCH"
    /\ last.via = "page"
    /\ response.status = 200
    /\ last.body.status = "resolved"
    /\ Len(uiAlerts) = 1
    /\ uiAlerts[1].id = last.body.alertId
    /\ uiAlerts[1].status = "resolved"
    /\ alerts[1].status = "resolved"

\* C30: the conversation that was selected and is open is shown in the list,
\* whatever the search box holds, with unreadCount 0 and every message read.
C30_SelectedConversationListedRead ==
    \A i \in 1..Len(filteredConversations) :
        (/\ selectedConversation # <<>>
         /\ filteredConversations[i].id = selectedConversation[1].id)
        => /\ filteredConversations[i].unreadCount = 0
           /\ \A m \in 1..Len(filteredConversations[i].messages) :
                 filteredConversations[i].messages[m].isRead

====
